---------------------------- MODULE Spec2Model ----------------------------
(***************************************************************************)
(* Model of the Snowflake database backend for Django                      *)
(* (src/snowflake/base.py): DatabaseWrapper's hooks get_connection_params,  *)
(* get_new_connection, create_cursor, _set_autocommit, is_usable, and the   *)
(* CursorDebugWrapper operations copy_expert and copy_to.                   *)
(*                                                                         *)
(* The driver (snowflake.connector) and the host framework (Django) are     *)
(* the environment: every driver call answers either normally or by        *)
(* raising one of Exceptions, chosen nondeterministically.  Each hook is an *)
(* operator that, given its arguments and the driver's answers, yields the  *)
(* sequence of calls it makes (events) and what the caller observes         *)
(* (outcome); the actions apply the events to the driver's state.           *)
(***************************************************************************)
EXTENDS Naturals, Sequences, FiniteSets, TLC

VARIABLES
    settings_dict,   \* self.settings_dict: setting name -> value
    connection,      \* self.connection: NoConnection or the driver's handle
    autocommit,      \* the autocommit attribute of the connection object
    open_cursors,    \* cursors of the connection that are open
    debug_cursor,    \* the debug cursor wrapper in use, or NoWrapper
    last             \* the last hook call: arguments, events, outcome

vars == <<settings_dict, connection, autocommit, open_cursors, debug_cursor, last>>

----------------------------------------------------------------------------
(* Bounds *)

\* How many distinct non-empty setting values are drawn from ValuePool.
NumValues == 2

\* How many cursors may be open on the connection at once.
MaxCursors == 2

ValuePool == <<"a", "b", "c", "d">>

NonEmptyValues == {ValuePool[i] : i \in 1..NumValues}

\* A setting's value is a string; "" is the empty (falsy) one.
Values == {""} \cup NonEmptyValues

----------------------------------------------------------------------------
(* Values the caller observes, exceptions *)

Return(v) == [kind |-> "return", value |-> v]

Raise(e) == [kind |-> "raise", value |-> e]

\* django.core.exceptions.ImproperlyConfigured(message)
ImproperlyConfigured(message) ==
    [origin |-> "django", type |-> "ImproperlyConfigured", message |-> message]

\* settings_dict[key] on a dict without that key
KeyError(key) == [origin |-> "python", type |-> "KeyError", message |-> key]

\* Raised by the async_unsafe decorator inside a running event loop.
SynchronousOnlyOperation ==
    [origin |-> "django", type |-> "SynchronousOnlyOperation", message |-> ""]

\* Database.Error and its subclasses, raised by the driver.
DriverErrors ==
    {[origin |-> "driver", type |-> t, message |-> ""] :
        t \in {"Error", "OperationalError"}}

\* Anything else a driver call may raise (no subclass of Database.Error).
OtherErrors == {[origin |-> "python", type |-> "RuntimeError", message |-> ""]}

Exceptions == DriverErrors \cup OtherErrors

IsDriverError(e) == e.origin = "driver"

----------------------------------------------------------------------------
(* get_connection_params *)

RequiredSettings ==
    {"DATABASE", "USER", "PASSWORD", "ACCOUNT", "WAREHOUSE", "ROLE", "SCHEMA"}

\* The seven checks of get_connection_params in the order of the code: the
\* setting read, the key written, the message of the else branch.
ParamTable == <<
    [setting |-> "DATABASE",  key |-> "database",
     message |-> "Please provide a username for snowflake!"],
    [setting |-> "USER",      key |-> "user",
     message |-> "Please provide a username for snowflake!"],
    [setting |-> "PASSWORD",  key |-> "password",
     message |-> "Please provide a password for snowflake!"],
    [setting |-> "ACCOUNT",   key |-> "account",
     message |-> "Please provide an account for snowflake!"],
    [setting |-> "WAREHOUSE", key |-> "warehouse",
     message |-> "Please provide a warehouse for snowflake!"],
    [setting |-> "ROLE",      key |-> "role",
     message |-> "Please provide a role for snowflake!"],
    [setting |-> "SCHEMA",    key |-> "schema",
     message |-> "Please provide a schema for snowflake!"] >>

\* Python truthiness of a setting's value: `if settings_dict['X']:`
Truthy(v) == v # ""

\* The checks from the i-th on, conn_params holding what was copied so far.
\* settings_dict['X'] raises KeyError when the key is absent.
RECURSIVE resolve_from(_, _, _)
resolve_from(settings, i, conn_params) ==
    IF i > Len(ParamTable) THEN Return(conn_params)
    ELSE LET row == ParamTable[i] IN
         IF row.setting \notin DOMAIN settings
         THEN Raise(KeyError(row.setting))
         ELSE IF Truthy(settings[row.setting])
              THEN resolve_from(settings, i + 1,
                       conn_params @@ (row.key :> settings[row.setting]))
              ELSE Raise(ImproperlyConfigured(row.message))

\* A slip of the pen: every entry of the configuration is passed on.
get_connection_params_passes_all(settings) ==
    LET r == resolve_from(settings, 1, <<>>) IN
    IF r.kind = "return"
    THEN Return(r.value @@ [k \in DOMAIN settings \ RequiredSettings |-> settings[k]])
    ELSE r

get_connection_params(settings) == resolve_from(settings, 1, <<>>)

\* The adapter makes no driver call while resolving parameters.
get_connection_params_events == <<>>

----------------------------------------------------------------------------
(* The configurations a wrapper may be constructed with *)

\* An entry beyond the required seven (Django fills HOST in by default).
ExtraSettings == ("HOST" :> ValuePool[1])

\* Each required setting absent, empty or one of NonEmptyValues.
AllSettings ==
    {s @@ ExtraSettings :
        s \in UNION {[D -> Values] : D \in SUBSET RequiredSettings}}

NoConnection == [live |-> FALSE, kwargs |-> <<>>]

NoWrapper == [class |-> "None", via_adapter |-> FALSE]

NoCall ==
    [op |-> "none", args |-> <<>>, in_event_loop |-> FALSE, events |-> <<>>,
     outcome |-> [kind |-> "none", value |-> <<>>],
     pre |-> [connection |-> NoConnection, autocommit |-> FALSE, open_cursors |-> 0]]

Pre == [connection |-> connection, autocommit |-> autocommit,
        open_cursors |-> open_cursors]

\* DatabaseWrapper(settings_dict): no connection yet.
InitWith(S) ==
    /\ settings_dict \in S
    /\ connection = NoConnection
    /\ autocommit = FALSE
    /\ open_cursors = 0
    /\ debug_cursor = NoWrapper
    /\ last = NoCall

\* self.get_connection_params()
GetConnectionParams ==
    /\ last' = [op |-> "get_connection_params", args |-> <<>>,
                in_event_loop |-> FALSE,
                events |-> get_connection_params_events,
                outcome |-> get_connection_params(settings_dict),
                pre |-> Pre]
    /\ UNCHANGED <<settings_dict, connection, autocommit, open_cursors, debug_cursor>>

----------------------------------------------------------------------------
(* The driver's answers and the calls a hook makes *)

Ok(v) == [raised |-> FALSE, value |-> v]

Err(e) == [raised |-> TRUE, value |-> e]

Event(call, args, answer) == [call |-> call, args |-> args, answer |-> answer]

\* What the caller observes of a call passed through: its result or its error.
Outcome(answer) == IF answer.raised THEN Raise(answer.value) ELSE Return(answer.value)

\* The connection object Database.connect(**conn_params) returns.
Handle(conn_params) == [live |-> TRUE, kwargs |-> conn_params]

Indices(events, call) ==
    {i \in 1..Len(events) : events[i].call = call /\ ~events[i].answer.raised}

\* The driver's state after the calls of events: every connection.cursor()
\* that answered opened a cursor, every cursor.close() closed one.
CursorsAfter(events, n) ==
    (n + Cardinality(Indices(events, "connection.cursor")))
        - Cardinality(Indices(events, "cursor.close"))

\* connection.autocommit after the last assignment that answered.
AutocommitAfter(events, flag) ==
    LET set == Indices(events, "connection.autocommit=") IN
    IF set = {} THEN flag
    ELSE events[CHOOSE i \in set : \A j \in set : j <= i].args

\* self.connection after the calls of events.
ConnectionAfter(events, conn) ==
    IF Indices(events, "connection.close") = {} THEN conn ELSE NoConnection

----------------------------------------------------------------------------
(* get_new_connection, create_cursor *)

\* One more attempt after a failure.
get_new_connection_retries(conn_params, in_event_loop, answer) ==
    IF in_event_loop
    THEN [events |-> <<>>, outcome |-> Raise(SynchronousOnlyOperation)]
    ELSE IF answer.raised
         THEN [events |-> <<Event("Database.connect", conn_params, answer),
                            Event("Database.connect", conn_params, answer)>>,
               outcome |-> Outcome(answer)]
         ELSE [events |-> <<Event("Database.connect", conn_params, answer)>>,
               outcome |-> Outcome(answer)]

\* @async_unsafe raises SynchronousOnlyOperation inside a running event loop
\* and calls the function otherwise.
get_new_connection(conn_params, in_event_loop, answer) ==
    IF in_event_loop
    THEN [events |-> <<>>, outcome |-> Raise(SynchronousOnlyOperation)]
    ELSE [events |-> <<Event("Database.connect", conn_params, answer)>>,
          outcome |-> Outcome(answer)]

\* name is accepted and not used.
create_cursor(name, in_event_loop, answer) ==
    IF in_event_loop
    THEN [events |-> <<>>, outcome |-> Raise(SynchronousOnlyOperation)]
    ELSE [events |-> <<Event("connection.cursor", <<>>, answer)>>,
          outcome |-> Outcome(answer)]

----------------------------------------------------------------------------
(* _set_autocommit *)

\* self.wrap_database_errors (django.db.utils.DatabaseErrorWrapper): an
\* exception of the driver's Database.Error family leaves the block as the
\* class of the same name of django.db.utils; any other passes unchanged.
wrap_database_errors(e) ==
    IF IsDriverError(e)
    THEN [origin |-> "django", type |-> e.type, message |-> e.message]
    ELSE e

\* The assignment without the with block.
set_autocommit_unwrapped(value, answer) ==
    [events |-> <<Event("connection.autocommit=", value, answer)>>,
     outcome |-> IF answer.raised THEN Raise(answer.value) ELSE Return("None")]

\* The flag assigned is the negation of the one asked for.
set_autocommit_negated(value, answer) ==
    [events |-> <<Event("connection.autocommit=", ~value, answer)>>,
     outcome |-> IF answer.raised
                 THEN Raise(wrap_database_errors(answer.value))
                 ELSE Return("None")]

_set_autocommit(value, answer) ==
    [events |-> <<Event("connection.autocommit=", value, answer)>>,
     outcome |-> IF answer.raised
                 THEN Raise(wrap_database_errors(answer.value))
                 ELSE Return("None")]

----------------------------------------------------------------------------
(* is_usable *)

ProbeStatement == "SELECT current_version()"

\* Leaving `with self.connection.cursor() as cursor:` closes the cursor.
CursorExit == Event("cursor.close", <<>>, Ok("None"))

\* except Database.Error: return False; anything else propagates.
Absorb(e) == IF IsDriverError(e) THEN Return(FALSE) ELSE Raise(e)

\* The probe without the with block: the cursor is never closed.
is_usable_leaks(answers) ==
    IF answers.cursor.raised
    THEN [events |-> <<Event("connection.cursor", <<>>, answers.cursor)>>,
          outcome |-> Absorb(answers.cursor.value)]
    ELSE [events |-> <<Event("connection.cursor", <<>>, answers.cursor),
                       Event("cursor.execute", ProbeStatement, answers.execute)>>,
          outcome |-> IF answers.execute.raised
                      THEN Absorb(answers.execute.value)
                      ELSE Return(TRUE)]

\* The probe without the except clause.
is_usable_propagates(answers) ==
    IF answers.cursor.raised
    THEN [events |-> <<Event("connection.cursor", <<>>, answers.cursor)>>,
          outcome |-> Raise(answers.cursor.value)]
    ELSE [events |-> <<Event("connection.cursor", <<>>, answers.cursor),
                       Event("cursor.execute", ProbeStatement, answers.execute),
                       CursorExit>>,
          outcome |-> IF answers.execute.raised
                      THEN Raise(answers.execute.value)
                      ELSE Return(TRUE)]

\* answers.cursor: what connection.cursor() answers; answers.execute: what
\* cursor.execute answers, when it is reached.
is_usable(answers) ==
    IF answers.cursor.raised
    THEN [events |-> <<Event("connection.cursor", <<>>, answers.cursor)>>,
          outcome |-> Absorb(answers.cursor.value)]
    ELSE [events |-> <<Event("connection.cursor", <<>>, answers.cursor),
                       Event("cursor.execute", ProbeStatement, answers.execute),
                       CursorExit>>,
          outcome |-> IF answers.execute.raised
                      THEN Absorb(answers.execute.value)
                      ELSE Return(TRUE)]

----------------------------------------------------------------------------
(* CursorDebugWrapper *)

\* with self.debug_sql(sql): the scope is entered, and left on every path.
DebugEnter(sql) == Event("debug_sql.enter", sql, Ok("None"))

DebugExit == Event("debug_sql.exit", <<>>, Ok("None"))

\* 'COPY %s TO STDOUT' % table
CopyToStatement(table) == <<"COPY ", table, " TO STDOUT">>

\* The call outside the scope: the scope is left before the cursor is used.
copy_expert_outside(sql, file, args, answer) ==
    [events |-> <<DebugEnter(sql), DebugExit,
                  Event("cursor.copy_expert",
                        [positional |-> <<sql, file>> \o args, keywords |-> {}],
                        answer)>>,
     outcome |-> Outcome(answer)]

copy_expert(sql, file, args, answer) ==
    [events |-> <<DebugEnter(sql),
                  Event("cursor.copy_expert",
                        [positional |-> <<sql, file>> \o args, keywords |-> {}],
                        answer),
                  DebugExit>>,
     outcome |-> Outcome(answer)]

copy_to(file, table, args, kwargs, answer) ==
    [events |-> <<DebugEnter(CopyToStatement(table)),
                  Event("cursor.copy_to",
                        [positional |-> <<file, table>> \o args, keywords |-> kwargs],
                        answer),
                  DebugExit>>,
     outcome |-> Outcome(answer)]

\* django.db.backends.utils.CursorWrapper.__getattr__: an attribute the
\* wrapper's class does not define is the wrapped cursor's own.
forwarded(name, positional, kwargs, answer) ==
    [events |-> <<Event(name, [positional |-> positional, keywords |-> kwargs],
                        answer)>>,
     outcome |-> Outcome(answer)]

\* DatabaseWrapper defines no make_debug_cursor (the definition is commented
\* out), so BaseDatabaseWrapper's applies: the framework's own wrapper.
make_debug_cursor == [class |-> "BaseCursorDebugWrapper", via_adapter |-> TRUE]

\* CursorDebugWrapper(cursor, db), constructed by a caller.
NewCursorDebugWrapper == [class |-> "CursorDebugWrapper", via_adapter |-> FALSE]

----------------------------------------------------------------------------
(* The adapter in use *)

\* Every required setting holds the same value v.
Uniform(v) == [k \in RequiredSettings |-> v] @@ ExtraSettings

MainSettings == {Uniform(v) : v \in Values}

Names == {"None", "named"}

Sqls == {"sql1", "sql2"}

Files == {"file1"}

Tables == {"t1", "t2"}

ExtraArgs == {<<>>, <<"x">>}

Kwargs == {{}, {<<"sep", ",">>}}

\* What a driver call may do: answer (NoException) or raise one of Exceptions.
NoException == [origin |-> "", type |-> "", message |-> ""]

Behaviours == {NoException} \cup Exceptions

\* The answer of a call that returns v unless it raises x.
Answer(x, v) == IF x = NoException THEN Ok(v) ELSE Err(x)

Record(op, args, loop, result) ==
    last' = [op |-> op, args |-> args, in_event_loop |-> loop,
             events |-> result.events, outcome |-> result.outcome, pre |-> Pre]

\* The driver's state follows from the calls made.
Driver(result) ==
    /\ connection' = ConnectionAfter(result.events, connection)
    /\ autocommit' = AutocommitAfter(result.events, autocommit)
    /\ open_cursors' = CursorsAfter(result.events, open_cursors)

\* BaseDatabaseWrapper.connect(): self.connection =
\* self.get_new_connection(self.get_connection_params()).  A new connection
\* has no cursors; its autocommit mode is the driver's choice.
GetNewConnection ==
    /\ last.op = "get_connection_params"
    /\ last.outcome.kind = "return"
    /\ \E loop \in BOOLEAN, x \in Behaviours :
        LET answer == Answer(x, Handle(last.outcome.value))
            result == get_new_connection(last.outcome.value, loop, answer) IN
        /\ Record("get_new_connection", last.outcome.value, loop, result)
        /\ IF result.outcome.kind = "return"
           THEN /\ connection' = result.outcome.value
                /\ autocommit' \in BOOLEAN
                /\ open_cursors' = 0
                /\ debug_cursor' = NoWrapper
           ELSE UNCHANGED <<connection, autocommit, open_cursors, debug_cursor>>
    /\ UNCHANGED settings_dict

\* The hooks below are reached through the framework only with a connection
\* (ensure_connection(), `if self.connection is not None`).
CreateCursor ==
    /\ connection.live
    /\ open_cursors < MaxCursors
    /\ \E name \in Names, loop \in BOOLEAN, x \in Behaviours :
        LET result == create_cursor(name, loop, Answer(x, "cursor")) IN
        /\ Record("create_cursor", name, loop, result)
        /\ Driver(result)
    /\ UNCHANGED <<settings_dict, debug_cursor>>

SetAutocommit ==
    /\ connection.live
    /\ \E value \in BOOLEAN, x \in Behaviours :
        LET result == _set_autocommit(value, Answer(x, "None")) IN
        /\ Record("_set_autocommit", value, FALSE, result)
        /\ Driver(result)
    /\ UNCHANGED <<settings_dict, debug_cursor>>

IsUsable ==
    /\ connection.live
    /\ \E c \in Behaviours, e \in Behaviours :
        \* cursor.execute is not reached when connection.cursor() raised
        /\ c # NoException => e = NoException
        /\ LET result == is_usable([cursor |-> Answer(c, "cursor"),
                                     execute |-> Answer(e, "None")]) IN
           /\ Record("is_usable", <<>>, FALSE, result)
           /\ Driver(result)
    /\ UNCHANGED <<settings_dict, debug_cursor>>

\* connection.make_debug_cursor(cursor) on a cursor of the connection
MakeDebugCursor ==
    /\ connection.live
    /\ open_cursors > 0
    /\ debug_cursor' = make_debug_cursor
    /\ Record("make_debug_cursor", <<>>, FALSE,
              [events |-> <<>>, outcome |-> Return(make_debug_cursor)])
    /\ UNCHANGED <<settings_dict, connection, autocommit, open_cursors>>

\* CursorDebugWrapper(cursor, db) on a cursor of the connection
WrapCursor ==
    /\ connection.live
    /\ open_cursors > 0
    /\ debug_cursor' = NewCursorDebugWrapper
    /\ Record("CursorDebugWrapper", <<>>, FALSE,
              [events |-> <<>>, outcome |-> Return(NewCursorDebugWrapper)])
    /\ UNCHANGED <<settings_dict, connection, autocommit, open_cursors>>

\* debug_cursor.copy_expert(sql, file, *args)
CopyExpert ==
    /\ debug_cursor # NoWrapper
    /\ \E sql \in Sqls, file \in Files, args \in ExtraArgs, x \in Behaviours :
        LET answer == Answer(x, "copied")
            result == IF debug_cursor.class = "CursorDebugWrapper"
                      THEN copy_expert(sql, file, args, answer)
                      ELSE forwarded("cursor.copy_expert", <<sql, file>> \o args, {},
                                     answer) IN
        /\ Record("copy_expert",
                  [sql |-> sql, file |-> file, args |-> args, wrapper |-> debug_cursor],
                  FALSE, result)
        /\ Driver(result)
    /\ UNCHANGED <<settings_dict, debug_cursor>>

\* debug_cursor.copy_to(file, table, *args, **kwargs)
CopyTo ==
    /\ debug_cursor # NoWrapper
    /\ \E file \in Files, table \in Tables, args \in ExtraArgs, kwargs \in Kwargs,
          x \in Behaviours :
        LET answer == Answer(x, "copied")
            result == IF debug_cursor.class = "CursorDebugWrapper"
                      THEN copy_to(file, table, args, kwargs, answer)
                      ELSE forwarded("cursor.copy_to", <<file, table>> \o args, kwargs,
                                     answer) IN
        /\ Record("copy_to",
                  [file |-> file, table |-> table, args |-> args, kwargs |-> kwargs,
                   wrapper |-> debug_cursor],
                  FALSE, result)
        /\ Driver(result)
    /\ UNCHANGED <<settings_dict, debug_cursor>>

Init == InitWith(MainSettings)

Next ==
    \/ GetConnectionParams
    \/ GetNewConnection
    \/ CreateCursor
    \/ SetAutocommit
    \/ IsUsable
    \/ MakeDebugCursor
    \/ WrapCursor
    \/ CopyExpert
    \/ CopyTo

Spec == Init /\ [][Next]_vars

\* Parameter resolution alone, over every configuration of AllSettings.
ParamsInit == InitWith(AllSettings)

ParamsNext == GetConnectionParams

ParamsSpec == ParamsInit /\ [][ParamsNext]_vars

----------------------------------------------------------------------------
(* Properties of get_connection_params, checked under ParamsSpec *)

Resolved == last.op = "get_connection_params"

\* The key of the driver's connect operation each setting is passed under.
DriverKey(k) ==
    CASE k = "DATABASE"  -> "database"
      [] k = "USER"      -> "user"
      [] k = "PASSWORD"  -> "password"
      [] k = "ACCOUNT"   -> "account"
      [] k = "WAREHOUSE" -> "warehouse"
      [] k = "ROLE"      -> "role"
      [] k = "SCHEMA"    -> "schema"

\* The setting a message asks the user to provide, by its wording.
SettingAskedFor(message) ==
    CASE message = "Please provide a username for snowflake!"  -> "USER"
      [] message = "Please provide a password for snowflake!"  -> "PASSWORD"
      [] message = "Please provide an account for snowflake!"  -> "ACCOUNT"
      [] message = "Please provide a warehouse for snowflake!" -> "WAREHOUSE"
      [] message = "Please provide a role for snowflake!"      -> "ROLE"
      [] message = "Please provide a schema for snowflake!"    -> "SCHEMA"
      [] OTHER -> "none"

AllPresent(s) == RequiredSettings \subseteq DOMAIN s

AllPopulated(s) == AllPresent(s) /\ \A k \in RequiredSettings : s[k] # ""

\* All seven settings present, k alone empty.
OnlyEmpty(s, k) ==
    AllPresent(s) /\ \A j \in RequiredSettings : (s[j] = "") <=> (j = k)

\* k alone absent, the other six non-empty.
OnlyAbsent(s, k) ==
    /\ RequiredSettings \ DOMAIN s = {k}
    /\ \A j \in RequiredSettings \ {k} : s[j] # ""

\* The message raised for a configuration in which k alone is empty.
MessageWhenOnlyEmpty(k) ==
    get_connection_params([Uniform(ValuePool[1]) EXCEPT ![k] = ""]).value.message

\* C1: when exactly one required setting is empty and the other six are
\* non-empty, get_connection_params raises ImproperlyConfigured with a
\* message that names that setting and differs from the message of every
\* other setting, and makes no call of the driver.
C1_EmptySettingNamedDistinctly ==
    \A k \in RequiredSettings :
        (Resolved /\ OnlyEmpty(settings_dict, k)) =>
            /\ last.outcome.kind = "raise"
            /\ last.outcome.value.type = "ImproperlyConfigured"
            /\ SettingAskedFor(last.outcome.value.message) = k
            /\ \A j \in RequiredSettings \ {k} :
                   MessageWhenOnlyEmpty(j) # last.outcome.value.message
            /\ last.events = <<>>

\* C2: when all seven required settings are non-empty, get_connection_params
\* returns a mapping whose keys are exactly database, user, password,
\* account, warehouse, role, schema, each holding the value of its setting
\* unchanged: no further entry of the configuration, no default.
C2_SevenKeysVerbatim ==
    (Resolved /\ AllPopulated(settings_dict)) =>
        /\ last.outcome.kind = "return"
        /\ DOMAIN last.outcome.value = {DriverKey(k) : k \in RequiredSettings}
        /\ \A k \in RequiredSettings :
               last.outcome.value[DriverKey(k)] = settings_dict[k]

\* A fully populated configuration whose settings differ, resolved.
C2_Witness ==
    /\ Resolved
    /\ AllPopulated(settings_dict)
    /\ settings_dict["USER"] # settings_dict["PASSWORD"]
    /\ settings_dict["DATABASE"] # settings_dict["SCHEMA"]
    /\ "HOST" \in DOMAIN settings_dict
    /\ last.outcome.kind = "return"

\* C3: when one required setting is absent (its key is not in the
\* configuration) and the other six are non-empty, get_connection_params
\* raises ImproperlyConfigured naming that setting, as for an empty value,
\* and no other kind of error.
C3_AbsentSettingIsConfigurationError ==
    \A k \in RequiredSettings :
        (Resolved /\ OnlyAbsent(settings_dict, k)) =>
            /\ last.outcome.kind = "raise"
            /\ last.outcome.value.type = "ImproperlyConfigured"
            /\ SettingAskedFor(last.outcome.value.message) = k

----------------------------------------------------------------------------
(* Properties of the connection hooks, checked under Spec *)

Raised(events) == {i \in 1..Len(events) : events[i].answer.raised}

DriverRaised(events) ==
    {i \in Raised(events) : events[i].answer.value.origin = "driver"}

Returned == last.outcome.kind = "return"

\* C4: after _set_autocommit(b) returns without error on an open
\* connection, the connection's autocommit flag is b, whatever toggles went
\* before.
C4_FlagIsLastToggle ==
    (last.op = "_set_autocommit" /\ Returned) =>
        /\ last.pre.connection.live
        /\ autocommit = last.args

\* A toggle that changed the flag.
C4_Witness ==
    /\ last.op = "_set_autocommit"
    /\ Returned
    /\ last.args = FALSE
    /\ last.pre.autocommit = TRUE
    /\ autocommit = FALSE

\* The classes of django.db.utils the wrapper raises: Error and its subclasses.
FrameworkDatabaseErrors ==
    {"Error", "InterfaceError", "DatabaseError", "DataError", "OperationalError",
     "IntegrityError", "InternalError", "ProgrammingError", "NotSupportedError"}

\* C5: when the driver fails while _set_autocommit assigns the flag, the
\* caller observes an error of the framework's database-error classes, never
\* the driver's own; the failure is not swallowed and the assignment is not
\* tried again.
C5_DriverFailureIsWrapped ==
    (last.op = "_set_autocommit" /\ DriverRaised(last.events) # {}) =>
        /\ last.outcome.kind = "raise"
        /\ last.outcome.value.origin = "django"
        /\ last.outcome.value.type \in FrameworkDatabaseErrors
        /\ Len(last.events) = 1

\* The driver raised OperationalError during the assignment.
C5_Witness ==
    /\ last.op = "_set_autocommit"
    /\ DriverRaised(last.events) # {}
    /\ last.outcome.kind = "raise"
    /\ last.outcome.value.type = "OperationalError"

\* C6: is_usable returns False whenever opening the probe cursor or executing
\* SELECT current_version() raises a driver error, returns True whenever the
\* probe completes without error, and never lets a driver error through.
C6_ProbeAbsorbsDriverErrors ==
    last.op = "is_usable" =>
        /\ DriverRaised(last.events) # {} =>
               (last.outcome.kind = "return" /\ last.outcome.value = FALSE)
        /\ Raised(last.events) = {} =>
               /\ last.outcome.kind = "return" /\ last.outcome.value = TRUE
               /\ \E i \in 1..Len(last.events) :
                      /\ last.events[i].call = "cursor.execute"
                      /\ last.events[i].args = "SELECT current_version()"
        /\ ~(last.outcome.kind = "raise" /\ last.outcome.value.origin = "driver")

\* connection.cursor() raised a driver error and is_usable returned False.
C6_Witness ==
    /\ last.op = "is_usable"
    /\ last.events[1].call = "connection.cursor"
    /\ 1 \in DriverRaised(last.events)
    /\ last.outcome.kind = "return"
    /\ last.outcome.value = FALSE

OnRepositoryWrapper ==
    /\ last.op \in {"copy_expert", "copy_to"}
    /\ last.args.wrapper.class = "CursorDebugWrapper"

\* The arguments the wrapped cursor must receive: those of the caller.
GivenArguments ==
    IF last.op = "copy_expert"
    THEN [positional |-> <<last.args.sql, last.args.file>> \o last.args.args,
          keywords |-> {}]
    ELSE [positional |-> <<last.args.file, last.args.table>> \o last.args.args,
          keywords |-> last.args.kwargs]

\* C7: CursorDebugWrapper.copy_expert and copy_to enter the debug scope
\* first, then call the wrapped cursor's operation of the same name exactly
\* once with the caller's arguments in order, then leave the scope exactly
\* once, whether the call returns (result handed back unchanged) or raises
\* (error propagated unchanged).
C7_ScopeAroundOneForwardedCall ==
    OnRepositoryWrapper =>
        LET ev == last.events IN
        /\ Len(ev) = 3
        /\ ev[1].call = "debug_sql.enter"
        /\ ev[2].call = (IF last.op = "copy_expert"
                         THEN "cursor.copy_expert" ELSE "cursor.copy_to")
        /\ ev[2].args = GivenArguments
        /\ ev[3].call = "debug_sql.exit"
        /\ last.outcome.kind = (IF ev[2].answer.raised THEN "raise" ELSE "return")
        /\ last.outcome.value = ev[2].answer.value

\* copy_expert with further arguments, the wrapped cursor raising.
C7_Witness ==
    /\ OnRepositoryWrapper
    /\ last.op = "copy_expert"
    /\ last.args.args # <<>>
    /\ Raised(last.events) # {}
    /\ last.outcome.kind = "raise"

\* C8: a bulk copy (copy_expert or copy_to) on a debug cursor obtained from
\* the adapter's make_debug_cursor runs in this repository's
\* CursorDebugWrapper: a debug scope is entered before the call reaches the
\* wrapped cursor.
C8_AdapterDebugCursorRecordsCopy ==
    (last.op \in {"copy_expert", "copy_to"} /\ last.args.wrapper.via_adapter) =>
        /\ last.args.wrapper.class = "CursorDebugWrapper"
        /\ Len(last.events) >= 2
        /\ last.events[1].call = "debug_sql.enter"

\* One call of the driver operation `call` with `args`, passed through.
PassedThroughOnce(call, args) ==
    /\ Len(last.events) = 1
    /\ last.events[1].call = call
    /\ last.events[1].args = args
    /\ last.outcome.kind = (IF last.events[1].answer.raised THEN "raise" ELSE "return")
    /\ last.outcome.value = last.events[1].answer.value

\* Only is_usable turns a driver error into a result.
OnlyProbeAbsorbs ==
    (DriverRaised(last.events) # {} /\ Returned) => last.op = "is_usable"

\* C9 as stated: every call of get_new_connection calls the driver's connect
\* exactly once with the given parameters, every call of create_cursor calls
\* connection.cursor() exactly once whatever the name; result and error pass
\* unchanged; only is_usable absorbs a driver error.
C9_EveryCallPassedThroughOnce ==
    /\ last.op = "get_new_connection" => PassedThroughOnce("Database.connect", last.args)
    /\ last.op = "create_cursor" => PassedThroughOnce("connection.cursor", <<>>)
    /\ OnlyProbeAbsorbs

\* C9 amended: the same for every call made outside a running event loop;
\* inside one, async_unsafe raises SynchronousOnlyOperation and the driver is
\* not called.
C9_SynchronousCallPassedThroughOnce ==
    /\ last.op = "get_new_connection" =>
           IF last.in_event_loop
           THEN last.events = <<>> /\ last.outcome = Raise(SynchronousOnlyOperation)
           ELSE PassedThroughOnce("Database.connect", last.args)
    /\ last.op = "create_cursor" =>
           IF last.in_event_loop
           THEN last.events = <<>> /\ last.outcome = Raise(SynchronousOnlyOperation)
           ELSE PassedThroughOnce("connection.cursor", <<>>)
    /\ OnlyProbeAbsorbs

\* connect raised a driver error outside an event loop; the caller got it.
C9_Witness ==
    /\ last.op = "get_new_connection"
    /\ ~last.in_event_loop
    /\ DriverRaised(last.events) = {1}
    /\ last.outcome.kind = "raise"
    /\ last.outcome.value.origin = "driver"

\* C10: is_usable, whether it returns True or False, leaves self.connection
\* and the connection's autocommit flag as they were, and has closed the probe
\* cursor whenever connection.cursor() opened one, also when the probe
\* statement raised.
C10_ProbeLeavesStateAndClosesCursor ==
    last.op = "is_usable" =>
        /\ connection = last.pre.connection
        /\ autocommit = last.pre.autocommit
        /\ open_cursors = last.pre.open_cursors
        /\ \A i \in 1..Len(last.events) :
               (last.events[i].call = "connection.cursor" /\ ~last.events[i].answer.raised)
                   => \E j \in (i + 1)..Len(last.events) :
                          last.events[j].call = "cursor.close"

\* The probe statement raised a driver error on an opened cursor.
C10_Witness ==
    /\ last.op = "is_usable"
    /\ Len(last.events) = 3
    /\ 2 \in DriverRaised(last.events)
    /\ last.outcome.kind = "return"
    /\ last.outcome.value = FALSE
    /\ open_cursors = last.pre.open_cursors

=============================================================================
